---- MODULE Spec2Model ----
(***************************************************************************)
(* LiteEth standalone core generator (liteeth/gen.py) and the PHY          *)
(* autodetection helper (liteeth/phy/__init__.py).                         *)
(*                                                                         *)
(* Spec    : one run of gen.main() on a YAML configuration, one action per *)
(*           block of main() and of the PHYCore/MACCore/UDPCore            *)
(*           constructors, in program order.                               *)
(* SpecPHY : one call of liteeth.phy.LiteEthPHY(clock_pads, pads).         *)
(***************************************************************************)
EXTENDS Integers, Sequences, FiniteSets, TLC

VARIABLES
    pc,           \* position of main() / of the constructor it is running
    core_config,  \* the configuration dict (function: present key -> value)
    error,        \* the exception that left main(), "" while there is none
    platform,     \* the vendor platform object built by main(), NoObject before
    requested,    \* platform.request() calls so far, in order
    soc_class,    \* class main() constructs: "MACCore", "UDPCore" or None
    nrxslots,     \* MACCore.__init__ local
    ntxslots,     \* MACCore.__init__ local
    mem_map,      \* self.mem_map of the SoC
    socmini,      \* arguments SoCMini.__init__ was called with, NoObject before
    submodules,   \* self.submodules, in order of attachment
    ethphy,       \* the PHY instance, NoObject before
    ethmac,       \* the LiteEthMAC instance, NoObject before
    core,         \* the LiteEthUDPIPCore instance, NoObject before
    udp_ports,    \* crossbar.get_port() calls so far
    bus_slaves,   \* self.bus.add_slave() calls so far
    constraints,  \* platform.add_*_constraint(s) calls so far, in order
    built,        \* builder.build() was called
    clock_pads,   \* LiteEthPHY argument: attribute names of the clock pads
    pads,         \* LiteEthPHY argument: attribute names and len(tx_data)
    phy_ret       \* outcome of the LiteEthPHY call, NotCalled before

vars == <<pc, core_config, error, platform, requested, soc_class, nrxslots,
          ntxslots, mem_map, socmini, submodules, ethphy, ethmac, core,
          udp_ports, bus_slaves, constraints, built, clock_pads, pads, phy_ret>>

build_vars == <<pc, core_config, error, platform, requested, soc_class, nrxslots,
                ntxslots, mem_map, socmini, submodules, ethphy, ethmac, core,
                udp_ports, bus_slaves, constraints, built>>

phy_vars == <<clock_pads, pads, phy_ret>>

----------------------------------------------------------------------------
(* Bounds of the model. *)

MaxSlots == 2     \* nrxslots, ntxslots range over 1..MaxSlots when configured
MaxWidth == 8     \* len(pads.tx_data) ranges over 1..MaxWidth

----------------------------------------------------------------------------
(* Python values. *)

None == "<None>"             \* Python's None
NoObject == [cls |-> None]   \* an attribute that holds no instance yet

EmptyDict == <<>>

\* dict.get(k, default)
Get(d, k, default) == IF k \in DOMAIN d THEN d[k] ELSE default

\* liteeth.common.buffer_depth, star-imported by gen.py: the size of one slot
\* buffer.  It is set in liteeth/common.py; no property depends on its value.
buffer_depth == 2048

----------------------------------------------------------------------------
(* liteeth.phy namespace: what getattr(liteeth_phys, name) returns.        *)
(* A class is written "<module>.<class>".                                  *)

liteeth_phys ==
    [LiteEthPHY          |-> "phy.LiteEthPHY",
     LiteEthPHYMII       |-> "mii.LiteEthPHYMII",
     LiteEthPHYRMII      |-> "rmii.LiteEthPHYRMII",
     LiteEthPHYGMII      |-> "gmii.LiteEthPHYGMII",
     LiteEthPHYGMIIMII   |-> "gmii_mii.LiteEthPHYGMIIMII",
     LiteEthPHYXGMII     |-> "xgmii.LiteEthPHYXGMII",
     LiteEthS6PHYRGMII   |-> "s6rgmii.LiteEthPHYRGMII",
     LiteEthS7PHYRGMII   |-> "s7rgmii.LiteEthPHYRGMII",
     LiteEthUSPHYRGMII   |-> "usrgmii.LiteEthPHYRGMII",
     LiteEthECP5PHYRGMII |-> "ecp5rgmii.LiteEthPHYRGMII",
     A7_1000BASEX        |-> "a7_1000basex.A7_1000BASEX",
     KU_1000BASEX        |-> "ku_1000basex.KU_1000BASEX"]

\* liteeth.phy.model.LiteEthPHYModel, the simulation stand-in
LiteEthPHYModel == "model.LiteEthPHYModel"

----------------------------------------------------------------------------
(* LiteEthPHY(clock_pads, pads): autodetection.                            *)
(* cp is the set of attribute names of clock_pads; p.signals the attribute *)
(* names of pads and p.tx_data the value of len(pads.tx_data).             *)

ErrRGMII == "ValueError: RGMII PHYs are specific to vendors (for now), use direct instantiation"
ErrAutodetect == "ValueError: Unable to autodetect PHY from platform file, use direct instantiation"

Returned(cls, with_clk_freq) == [cls |-> cls, with_clk_freq |-> with_clk_freq, raised |-> ""]
Raised(msg) == [cls |-> None, with_clk_freq |-> FALSE, raised |-> msg]
NotCalled == Raised("<not called>")  \* no LiteEthPHY call has returned yet

\* mutant: the rx_ctl test is made before the gtx test
LiteEthPHY_RxCtlFirst(cp, p) ==
    IF "rx_ctl" \in p.signals
    THEN Raised(ErrRGMII)
    ELSE IF "gtx" \in cp /\ p.tx_data = 8
         THEN IF "tx" \in cp
              THEN Returned(liteeth_phys.LiteEthPHYGMIIMII, TRUE)
              ELSE Returned(liteeth_phys.LiteEthPHYGMII, FALSE)
         ELSE IF p.tx_data = 4
              THEN Returned(liteeth_phys.LiteEthPHYMII, FALSE)
              ELSE Raised(ErrAutodetect)

\* mutant: the rx_ctl branch is missing
LiteEthPHY_NoRxCtl(cp, p) ==
    IF "gtx" \in cp /\ p.tx_data = 8
    THEN IF "tx" \in cp
         THEN Returned(liteeth_phys.LiteEthPHYGMIIMII, TRUE)
         ELSE Returned(liteeth_phys.LiteEthPHYGMII, FALSE)
    ELSE IF p.tx_data = 4
         THEN Returned(liteeth_phys.LiteEthPHYMII, FALSE)
         ELSE Raised(ErrAutodetect)

LiteEthPHY(cp, p) ==
    IF "gtx" \in cp /\ p.tx_data = 8
    THEN IF "tx" \in cp
         THEN Returned(liteeth_phys.LiteEthPHYGMIIMII, TRUE)
         ELSE Returned(liteeth_phys.LiteEthPHYGMII, FALSE)
    ELSE IF "rx_ctl" \in p.signals
         THEN Raised(ErrRGMII)
         ELSE IF p.tx_data = 4
              THEN Returned(liteeth_phys.LiteEthPHYMII, FALSE)
              ELSE Raised(ErrAutodetect)

----------------------------------------------------------------------------
(* The LiteEthPHY call as a one-step program.                              *)

ClockPadShapes == SUBSET {"tx", "gtx", "rx"}
PadShapes == [signals : SUBSET {"rx_ctl"}, tx_data : 1..MaxWidth]

CallLiteEthPHY ==
    /\ phy_ret = NotCalled
    /\ phy_ret' = LiteEthPHY(clock_pads, pads)
    /\ UNCHANGED <<clock_pads, pads>>
    /\ UNCHANGED build_vars

----------------------------------------------------------------------------
(* YAML configurations given to main().  A key is either absent or present *)
(* with one of the listed raw values.                                      *)

Opt(k, vals) == {EmptyDict} \cup {k :> v : v \in vals}

Vendors == {"lattice", "xilinx", "altera"}
CoreKinds == {"wishbone", "udp", "mac"}
PhyNames == {"LiteEthPHYMII", "LiteEthPHYRMII", "LiteEthPHYGMII", "LiteEthPHYGMIIMII",
             "LiteEthS7PHYRGMII", "LiteEthECP5PHYRGMII",
             "LiteEthPHYXGMII", "LiteEthS6PHYRGMII", "LiteEthPHYModel"}
MapValue == "ethmac" :> 805306368
SocValue == ("mem_map" :> MapValue) @@ ("ident" :> "LiteEth")
AddressValues == {"None", "literal"}

CommonConfigs ==
    {c @@ m @@ s @@ f @@ v @@ p :
        c \in Opt("csr_map", {MapValue}),
        m \in Opt("mem_map", {MapValue}),
        s \in Opt("soc", {SocValue}),
        f \in Opt("clk_freq", {"100e6"}),
        v \in {"vendor" :> x : x \in Vendors},
        p \in Opt("phy", PhyNames)}

\* keys read by MACCore only
MACConfigs ==
    {("core" :> "wishbone") @@ r @@ t @@ e @@ w :
        r \in Opt("nrxslots", 1..MaxSlots),
        t \in Opt("ntxslots", 1..MaxSlots),
        e \in Opt("endianness", {"big"}),
        w \in Opt("full_memory_we", {"True"})}

\* keys read by UDPCore only
UDPConfigs ==
    {("core" :> "udp") @@ a @@ i @@ p :
        a \in Opt("mac_address", AddressValues),
        i \in Opt("ip_address", AddressValues),
        p \in Opt("port", {6000})}

OtherConfigs == {"core" :> k : k \in CoreKinds \ {"wishbone", "udp"}}

YamlConfigs == {a @@ b : a \in CommonConfigs, b \in MACConfigs \cup UDPConfigs \cup OtherConfigs}

----------------------------------------------------------------------------
(* Initial states. *)

InitBuild ==
    /\ pc = "convert"
    /\ core_config \in YamlConfigs
    /\ error = ""
    /\ platform = NoObject
    /\ requested = <<>>
    /\ soc_class = None
    /\ nrxslots = 0
    /\ ntxslots = 0
    /\ mem_map = EmptyDict
    /\ socmini = NoObject
    /\ submodules = <<>>
    /\ ethphy = NoObject
    /\ ethmac = NoObject
    /\ core = NoObject
    /\ udp_ports = <<>>
    /\ bus_slaves = <<>>
    /\ constraints = <<>>
    /\ built = FALSE

NoCall ==
    /\ clock_pads = {}
    /\ pads = [signals |-> {}, tx_data |-> 1]
    /\ phy_ret = NotCalled

Init == InitBuild /\ NoCall

InitPHY ==
    /\ clock_pads \in ClockPadShapes
    /\ pads \in PadShapes
    /\ phy_ret = NotCalled
    /\ pc = "idle"
    /\ core_config = EmptyDict
    /\ error = ""
    /\ platform = NoObject
    /\ requested = <<>>
    /\ soc_class = None
    /\ nrxslots = 0
    /\ ntxslots = 0
    /\ mem_map = EmptyDict
    /\ socmini = NoObject
    /\ submodules = <<>>
    /\ ethphy = NoObject
    /\ ethmac = NoObject
    /\ core = NoObject
    /\ udp_ports = <<>>
    /\ bus_slaves = <<>>
    /\ constraints = <<>>
    /\ built = FALSE

----------------------------------------------------------------------------
(* Control flow of main(): the blocks in program order.  MACCore.__init__  *)
(* and UDPCore.__init__ call PHYCore.__init__ first (which validates,      *)
(* builds the SoC, the PHY and the timing constraints) and only then build *)
(* their own core.                                                         *)

\* mutant: the timing constraints are derived after the MAC or UDP/IP core
StepAfter_ConstraintsLast(step, cls) ==
    CASE step = "convert"     -> "platform"
      [] step = "platform"    -> "dispatch"
      [] step = "dispatch"    -> "validate"
      [] step = "validate"    -> "socmini"
      [] step = "socmini"     -> "phy"
      [] step = "phy"         -> IF cls = "MACCore" THEN "mac" ELSE "udp"
      [] step = "mac"         -> "constraints"
      [] step = "udp"         -> "constraints"
      [] step = "constraints" -> "build"
      [] step = "build"       -> "done"

StepAfter(step, cls) ==
    CASE step = "convert"     -> "platform"
      [] step = "platform"    -> "dispatch"
      [] step = "dispatch"    -> "validate"
      [] step = "validate"    -> "socmini"
      [] step = "socmini"     -> "phy"
      [] step = "phy"         -> "constraints"
      [] step = "constraints" -> IF cls = "MACCore" THEN "mac" ELSE "udp"
      [] step = "mac"         -> "build"
      [] step = "udp"         -> "build"
      [] step = "build"       -> "done"

\* mutant: the exception is recorded but swallowed, the run goes on
Raise_Swallowed(exc) ==
    /\ error' = exc
    /\ pc' = StepAfter(pc, soc_class)

\* raise exc: nothing catches it, it leaves main()
Raise(exc) ==
    /\ error' = exc
    /\ pc' = "failed"

Continue ==
    /\ pc' = StepAfter(pc, soc_class)
    /\ error' = error

----------------------------------------------------------------------------
(* main(): "Convert YAML elements to Python/LiteX".                        *)

StringKeys == {"vendor", "core", "phy", "clk_freq", "endianness", "full_memory_we",
               "mac_address", "ip_address"}

\* int(float(v)) on the frequency literals of the model
IntOfFloat(v) == CASE v = "100e6" -> 100000000

ConvertValue(k, v) ==
    IF k \notin StringKeys THEN v      \* numbers and mappings equal none of the strings
    ELSE IF k = "phy" THEN liteeth_phys[v]
    ELSE IF k = "clk_freq" THEN IntOfFloat(v)
    ELSE IF v = "False" THEN FALSE
    ELSE IF v = "True" THEN TRUE
    ELSE IF v = "None" THEN None
    ELSE v

Convert ==
    /\ pc = "convert"
    /\ IF "phy" \in DOMAIN core_config /\ core_config["phy"] \notin DOMAIN liteeth_phys
       THEN /\ Raise("AttributeError: module 'liteeth.phy' has no attribute")
            /\ UNCHANGED core_config
       ELSE /\ core_config' = [k \in DOMAIN core_config |-> ConvertValue(k, core_config[k])]
            /\ Continue
    /\ UNCHANGED <<platform, requested, soc_class, nrxslots, ntxslots, mem_map, socmini,
                   submodules, ethphy, ethmac, core, udp_ports, bus_slaves, constraints,
                   built>>
    /\ UNCHANGED phy_vars

----------------------------------------------------------------------------
(* main(): "Generate core", platform construction.                         *)

_io == {"sys_clock", "sys_reset", "mac_address", "ip_address", "interrupt",
        "mii_eth_clocks", "mii_eth", "rmii_eth_clocks", "rmii_eth",
        "gmii_eth_clocks", "gmii_eth", "rgmii_eth_clocks", "rgmii_eth",
        "udp_sink", "udp_source"}

Platform ==
    /\ pc = "platform"
    /\ LET cfg == IF "device" \in DOMAIN core_config
                  THEN core_config
                  ELSE core_config @@ ("device" :> "")
       IN  /\ core_config' = cfg
           /\ IF cfg["vendor"] = "lattice"
              THEN /\ platform' = [cls |-> "LatticePlatform", device |-> cfg["device"],
                                   toolchain |-> Get(cfg, "toolchain", "diamond"),
                                   io |-> _io]
                   /\ Continue
              ELSE IF cfg["vendor"] = "xilinx"
              THEN /\ platform' = [cls |-> "XilinxPlatform", device |-> cfg["device"],
                                   toolchain |-> Get(cfg, "toolchain", "vivado"),
                                   io |-> _io]
                   /\ Continue
              ELSE /\ Raise("ValueError: Unsupported vendor")
                   /\ UNCHANGED platform
    /\ UNCHANGED <<requested, soc_class, nrxslots, ntxslots, mem_map, socmini,
                   submodules, ethphy, ethmac, core, udp_ports, bus_slaves, constraints,
                   built>>
    /\ UNCHANGED phy_vars

----------------------------------------------------------------------------
(* main(): choice of the SoC class; MACCore.__init__ reads its slot counts *)
(* before it calls PHYCore.__init__.                                       *)

\* the class main() constructs for a core kind, None for an unknown kind
CoreClass(kind) ==
    IF kind = "wishbone" THEN "MACCore"
    ELSE IF kind = "udp" THEN "UDPCore"
    ELSE None

Dispatch ==
    /\ pc = "dispatch"
    /\ LET cls == CoreClass(core_config["core"])
       IN  IF cls = None
           THEN /\ Raise("ValueError: Unknown core")
                /\ UNCHANGED <<soc_class, nrxslots, ntxslots>>
           ELSE /\ soc_class' = cls
                /\ nrxslots' = IF cls = "MACCore" THEN Get(core_config, "nrxslots", 2) ELSE nrxslots
                /\ ntxslots' = IF cls = "MACCore" THEN Get(core_config, "ntxslots", 2) ELSE ntxslots
                /\ pc' = StepAfter(pc, cls)
                /\ error' = error
    /\ UNCHANGED <<core_config, platform, requested, mem_map, socmini,
                   submodules, ethphy, ethmac, core, udp_ports, bus_slaves, constraints,
                   built>>
    /\ UNCHANGED phy_vars

----------------------------------------------------------------------------
(* PHYCore.__init__: configuration validation and "SoC parameters".        *)

\* mutant: only csr_map is looked for
Deprecated_CsrOnly(cfg) == {"csr_map"} \cap DOMAIN cfg

\* the deprecated top-level options present in the configuration
Deprecated(cfg) == {"csr_map", "mem_map"} \cap DOMAIN cfg

\* dict.update
Update(d, e) == e @@ d

Validate ==
    /\ pc = "validate"
    /\ IF Deprecated(core_config) # {}
       THEN /\ Raise("RuntimeWarning: Config option is now a sub-option of 'soc'")
            /\ UNCHANGED mem_map
       ELSE /\ mem_map' = IF "soc" \in DOMAIN core_config /\ "mem_map" \in DOMAIN core_config["soc"]
                          THEN Update(mem_map, core_config["soc"]["mem_map"])
                          ELSE mem_map
            /\ Continue
    /\ UNCHANGED <<core_config, platform, requested, soc_class, nrxslots, ntxslots, socmini,
                   submodules, ethphy, ethmac, core, udp_ports, bus_slaves, constraints,
                   built>>
    /\ UNCHANGED phy_vars

----------------------------------------------------------------------------
(* PHYCore.__init__: SoCMini.__init__ and the CRG.                         *)

\* the entries of the soc sub-mapping forwarded to SoCMini.__init__
soc_args(cfg) ==
    IF "soc" \in DOMAIN cfg
    THEN [a \in DOMAIN cfg["soc"] \ {"csr_map", "interrupt_map", "mem_map"} |-> cfg["soc"][a]]
    ELSE EmptyDict

SoCMiniInit ==
    /\ pc = "socmini"
    /\ IF "clk_freq" \notin DOMAIN core_config
       THEN /\ Raise("KeyError: clk_freq")
            /\ UNCHANGED <<socmini, submodules, requested>>
       ELSE /\ socmini' = [cls |-> "SoCMini", clk_freq |-> core_config["clk_freq"],
                           args |-> soc_args(core_config)]
            /\ requested' = requested \o <<"sys_clock", "sys_reset">>
            /\ submodules' = Append(submodules, "crg")
            /\ Continue
    /\ UNCHANGED <<core_config, platform, soc_class, nrxslots, ntxslots, mem_map,
                   ethphy, ethmac, core, udp_ports, bus_slaves, constraints, built>>
    /\ UNCHANGED phy_vars

----------------------------------------------------------------------------
(* PHYCore.__init__: "PHY".  PHYBundles gives the pad bundles requested    *)
(* for a PHY class and the extra keyword arguments it is built with, or    *)
(* <<>> when no branch matches.                                            *)

\* mutant: the GMII/MII branch asks for the MII bundles
PHYBundles_WrongFamily(phy) ==
    IF phy \in {liteeth_phys.LiteEthPHYMII}
    THEN <<"mii_eth_clocks", "mii_eth", {}>>
    ELSE IF phy \in {liteeth_phys.LiteEthPHYRMII}
    THEN <<"rmii_eth_clocks", "rmii_eth", {}>>
    ELSE IF phy \in {liteeth_phys.LiteEthPHYGMII}
    THEN <<"gmii_eth_clocks", "gmii_eth", {}>>
    ELSE IF phy \in {liteeth_phys.LiteEthPHYGMIIMII}
    THEN <<"mii_eth_clocks", "mii_eth", {"clk_freq"}>>
    ELSE IF phy \in {liteeth_phys.LiteEthS7PHYRGMII, liteeth_phys.LiteEthECP5PHYRGMII}
    THEN <<"rgmii_eth_clocks", "rgmii_eth", {"tx_delay", "rx_delay", "with_hw_init_reset"}>>
    ELSE <<>>

PHYBundles(phy) ==
    IF phy \in {liteeth_phys.LiteEthPHYMII}
    THEN <<"mii_eth_clocks", "mii_eth", {}>>
    ELSE IF phy \in {liteeth_phys.LiteEthPHYRMII}
    THEN <<"rmii_eth_clocks", "rmii_eth", {}>>
    ELSE IF phy \in {liteeth_phys.LiteEthPHYGMII}
    THEN <<"gmii_eth_clocks", "gmii_eth", {}>>
    ELSE IF phy \in {liteeth_phys.LiteEthPHYGMIIMII}
    THEN <<"gmii_eth_clocks", "gmii_eth", {"clk_freq"}>>
    ELSE IF phy \in {liteeth_phys.LiteEthS7PHYRGMII, liteeth_phys.LiteEthECP5PHYRGMII}
    THEN <<"rgmii_eth_clocks", "rgmii_eth", {"tx_delay", "rx_delay", "with_hw_init_reset"}>>
    ELSE <<>>

PHY ==
    /\ pc = "phy"
    /\ IF "phy" \notin DOMAIN core_config
       THEN /\ Raise("KeyError: phy")
            /\ UNCHANGED <<ethphy, submodules, requested>>
       ELSE LET phy == core_config["phy"]
                b   == PHYBundles(phy)
            IN  IF b = <<>>
                THEN /\ Raise("ValueError: Unsupported PHY")
                     /\ UNCHANGED <<ethphy, submodules, requested>>
                ELSE /\ requested' = requested \o <<b[1], b[2]>>
                     /\ ethphy' = [cls |-> phy, clock_pads |-> b[1], pads |-> b[2],
                                   kwargs |-> b[3]]
                     /\ submodules' = Append(submodules, "ethphy")
                     /\ Continue
    /\ UNCHANGED <<core_config, platform, soc_class, nrxslots, ntxslots, mem_map, socmini,
                   ethmac, core, udp_ports, bus_slaves, constraints, built>>
    /\ UNCHANGED phy_vars

----------------------------------------------------------------------------
(* PHYCore.__init__: "Timing constaints".  The calls made on the platform, *)
(* in order; a period is kept as the expression the code evaluates.        *)

\* mutant: the false-path call is left out
TimingConstraints_NoFalsePath(phy) ==
    IF phy.cls # LiteEthPHYModel
    THEN <<[call |-> "add_period_constraint", clks |-> <<"eth_rx">>, period |-> "1e9/phy.rx_clk_freq"],
           [call |-> "add_period_constraint", clks |-> <<"eth_tx">>, period |-> "1e9/phy.tx_clk_freq"]>>
    ELSE <<>>

TimingConstraints(phy) ==
    IF phy.cls # LiteEthPHYModel
    THEN <<[call |-> "add_period_constraint", clks |-> <<"eth_rx">>, period |-> "1e9/phy.rx_clk_freq"],
           [call |-> "add_period_constraint", clks |-> <<"eth_tx">>, period |-> "1e9/phy.tx_clk_freq"],
           [call |-> "add_false_path_constraints", clks |-> <<"sys", "eth_rx", "eth_tx">>, period |-> ""]>>
    ELSE <<>>

Constraints ==
    /\ pc = "constraints"
    /\ constraints' = constraints \o TimingConstraints(ethphy)
    /\ Continue
    /\ UNCHANGED <<core_config, platform, requested, soc_class, nrxslots, ntxslots, mem_map,
                   socmini, submodules, ethphy, ethmac, core, udp_ports, bus_slaves, built>>
    /\ UNCHANGED phy_vars

----------------------------------------------------------------------------
(* MACCore.__init__: "MAC", "Wishbone Interface", "Interrupt Interface".   *)

\* mutant: the region is sized by the receive slots only
ethmac_region_RxOnly(nrx, ntx, map) ==
    [origin |-> Get(map, "ethmac", None), size |-> (nrx + nrx) * buffer_depth, cached |-> FALSE]

\* SoCRegion(origin=self.mem_map.get("ethmac", None), size=..., cached=False)
ethmac_region(nrx, ntx, map) ==
    [origin |-> Get(map, "ethmac", None), size |-> (nrx + ntx) * buffer_depth, cached |-> FALSE]

\* mutant: the MAC is built 8 bits wide
LiteEthMAC_Dw8(phy, cfg, nrx, ntx) ==
    [cls            |-> "LiteEthMAC",
     phy            |-> phy,
     dw             |-> 8,
     interface      |-> "wishbone",
     endianness     |-> cfg["endianness"],
     nrxslots       |-> nrx,
     ntxslots       |-> ntx,
     full_memory_we |-> Get(cfg, "full_memory_we", FALSE)]

\* the LiteEthMAC(...) call of MACCore.__init__
LiteEthMAC(phy, cfg, nrx, ntx) ==
    [cls            |-> "LiteEthMAC",
     phy            |-> phy,
     dw             |-> 32,
     interface      |-> "wishbone",
     endianness     |-> cfg["endianness"],
     nrxslots       |-> nrx,
     ntxslots       |-> ntx,
     full_memory_we |-> Get(cfg, "full_memory_we", FALSE)]

MAC ==
    /\ pc = "mac"
    /\ IF "endianness" \notin DOMAIN core_config
       THEN /\ Raise("KeyError: endianness")
            /\ UNCHANGED <<ethmac, submodules, bus_slaves, requested>>
       ELSE /\ ethmac' = LiteEthMAC(ethphy, core_config, nrxslots, ntxslots)
            /\ submodules' = Append(submodules, "ethmac")
            /\ bus_slaves' = Append(bus_slaves,
                                    [name   |-> "ethmac",
                                     slave  |-> "ethmac.bus",
                                     region |-> ethmac_region(nrxslots, ntxslots, mem_map)])
            /\ requested' = Append(requested, "interrupt")
            /\ Continue
    /\ UNCHANGED <<core_config, platform, soc_class, nrxslots, ntxslots, mem_map, socmini,
                   ethphy, core, udp_ports, constraints, built>>
    /\ UNCHANGED phy_vars

----------------------------------------------------------------------------
(* UDPCore.__init__: "Core" and "UDP".                                     *)

\* mutant: the pad is used only when the key is absent
FromPad_AbsentOnly(cfg, key) == key \notin DOMAIN cfg

\* core_config.get(key, None) is None: the value comes from the IOs
FromPad(cfg, key) == Get(cfg, key, None) = None

\* the value handed to LiteEthUDPIPCore for key
Address(cfg, key) == IF FromPad(cfg, key) THEN [pad |-> key] ELSE [literal |-> cfg[key]]

\* the platform.request() calls made for the two addresses, in order
AddressRequests(cfg) ==
    (IF FromPad(cfg, "mac_address") THEN <<"mac_address">> ELSE <<>>)
    \o (IF FromPad(cfg, "ip_address") THEN <<"ip_address">> ELSE <<>>)

\* self.core.udp.crossbar.get_port(core_config["port"], 8)
get_port(cfg) == [udp_port |-> cfg["port"], dw |-> 8]

UDP ==
    /\ pc = "udp"
    /\ core' = [cls         |-> "LiteEthUDPIPCore",
                phy         |-> ethphy,
                mac_address |-> Address(core_config, "mac_address"),
                ip_address  |-> Address(core_config, "ip_address"),
                clk_freq    |-> core_config["clk_freq"]]
    /\ submodules' = Append(submodules, "core")
    /\ IF "port" \notin DOMAIN core_config
       THEN /\ Raise("KeyError: port")
            /\ requested' = requested \o AddressRequests(core_config)
            /\ UNCHANGED udp_ports
       ELSE /\ udp_ports' = Append(udp_ports, get_port(core_config))
            /\ requested' = requested \o AddressRequests(core_config)
                                      \o <<"udp_sink", "udp_source">>
            /\ Continue
    /\ UNCHANGED <<core_config, platform, soc_class, nrxslots, ntxslots, mem_map, socmini,
                   ethphy, ethmac, bus_slaves, constraints, built>>
    /\ UNCHANGED phy_vars

----------------------------------------------------------------------------
(* main(): Builder(soc, ...).build(build_name="liteeth_core").             *)

Build ==
    /\ pc = "build"
    /\ built' = TRUE
    /\ Continue
    /\ UNCHANGED <<core_config, platform, requested, soc_class, nrxslots, ntxslots, mem_map,
                   socmini, submodules, ethphy, ethmac, core, udp_ports, bus_slaves,
                   constraints>>
    /\ UNCHANGED phy_vars

Next ==
    \/ Convert
    \/ Platform
    \/ Dispatch
    \/ Validate
    \/ SoCMiniInit
    \/ PHY
    \/ Constraints
    \/ MAC
    \/ UDP
    \/ Build

Spec == Init /\ [][Next]_vars

NextPHY == CallLiteEthPHY

SpecPHY == InitPHY /\ [][NextPHY]_vars

----------------------------------------------------------------------------
(* Vocabulary of the properties.                                           *)

Range(q) == {q[i] : i \in 1..Len(q)}

Called == phy_ret # NotCalled
Gigabit == "gtx" \in clock_pads /\ pads.tx_data = 8
HasRxCtl == "rx_ctl" \in pads.signals

\* the six PHY classes the generator accepts, and the bundles of their family
SupportedPhys == {"mii.LiteEthPHYMII", "rmii.LiteEthPHYRMII", "gmii.LiteEthPHYGMII",
                  "gmii_mii.LiteEthPHYGMIIMII", "s7rgmii.LiteEthPHYRGMII",
                  "ecp5rgmii.LiteEthPHYRGMII"}
FamilyBundles(cls) ==
    CASE cls = "mii.LiteEthPHYMII"           -> {"mii_eth_clocks", "mii_eth"}
      [] cls = "rmii.LiteEthPHYRMII"         -> {"rmii_eth_clocks", "rmii_eth"}
      [] cls = "gmii.LiteEthPHYGMII"         -> {"gmii_eth_clocks", "gmii_eth"}
      [] cls = "gmii_mii.LiteEthPHYGMIIMII"  -> {"gmii_eth_clocks", "gmii_eth"}
      [] cls = "s7rgmii.LiteEthPHYRGMII"     -> {"rgmii_eth_clocks", "rgmii_eth"}
      [] cls = "ecp5rgmii.LiteEthPHYRGMII"   -> {"rgmii_eth_clocks", "rgmii_eth"}
PhyBundleNames == {"mii_eth_clocks", "mii_eth", "rmii_eth_clocks", "rmii_eth",
                   "gmii_eth_clocks", "gmii_eth", "rgmii_eth_clocks", "rgmii_eth"}
PhyBundlesRequested == Range(requested) \cap PhyBundleNames

HasDeprecatedKey == "csr_map" \in DOMAIN core_config \/ "mem_map" \in DOMAIN core_config
Ended == pc \in {"done", "failed"}
NothingInstantiated ==
    /\ socmini = NoObject
    /\ requested = <<>>
    /\ submodules = <<>>
    /\ ethphy = NoObject
    /\ ethmac = NoObject
    /\ core = NoObject
    /\ udp_ports = <<>>
    /\ bus_slaves = <<>>
    /\ constraints = <<>>

----------------------------------------------------------------------------
\* C1: with no explicit kind, LiteEthPHY resolves by the ordered decision
\* list, first match wins: (1) gtx clock and 8 data bits give the GMII/MII
\* class when there is a tx clock too and the GMII class otherwise; (2) else
\* rx_ctl raises the RGMII error; (3) else 4 data bits give the MII class;
\* (4) else the autodetection error is raised.
C1_AutodetectDecisionList ==
    Called =>
        /\ Gigabit /\ "tx" \in clock_pads
              => phy_ret = [cls |-> "gmii_mii.LiteEthPHYGMIIMII", with_clk_freq |-> TRUE, raised |-> ""]
        /\ Gigabit /\ "tx" \notin clock_pads
              => phy_ret = [cls |-> "gmii.LiteEthPHYGMII", with_clk_freq |-> FALSE, raised |-> ""]
        /\ ~Gigabit /\ HasRxCtl
              => phy_ret.cls = None /\ phy_ret.raised = ErrRGMII
        /\ ~Gigabit /\ ~HasRxCtl /\ pads.tx_data = 4
              => phy_ret = [cls |-> "mii.LiteEthPHYMII", with_clk_freq |-> FALSE, raised |-> ""]
        /\ ~Gigabit /\ ~HasRxCtl /\ pads.tx_data # 4
              => phy_ret.cls = None /\ phy_ret.raised = ErrAutodetect

\* a pure gigabit shape (gtx, no tx, 8 bits) has been resolved to GMII
C1_Witness ==
    /\ Called
    /\ Gigabit /\ "tx" \notin clock_pads
    /\ phy_ret.cls = "gmii.LiteEthPHYGMII"

\* C2 as stated: every pad shape with rx_ctl makes LiteEthPHY raise the
\* RGMII error, whatever the other signals are.
C2_RxCtlAlwaysFails ==
    Called /\ HasRxCtl => phy_ret.cls = None /\ phy_ret.raised = ErrRGMII

\* C2 amended: a pad shape with rx_ctl makes LiteEthPHY raise the RGMII
\* error unless the clock pads have gtx and the data width is 8; then the
\* first test wins and a gigabit class is returned.
C2_RxCtlFailsUnlessGigabit ==
    Called /\ HasRxCtl =>
        IF Gigabit
        THEN phy_ret.raised = "" /\ phy_ret.cls \in {"gmii_mii.LiteEthPHYGMIIMII", "gmii.LiteEthPHYGMII"}
        ELSE phy_ret.cls = None /\ phy_ret.raised = ErrRGMII

\* the RGMII shape (rx_ctl, 4 data bits, tx and rx clocks) has been refused
C2_Witness ==
    /\ Called
    /\ HasRxCtl /\ pads.tx_data = 4 /\ clock_pads = {"tx", "rx"}
    /\ phy_ret.raised = ErrRGMII

----------------------------------------------------------------------------
\* C3: every region registered on the bus is the MAC's, of size
\* (nrxslots + ntxslots) x buffer_depth with both counts defaulting to 2,
\* uncached, at the origin of soc.mem_map["ethmac"] when there is one; a MAC
\* composition that got past the MAC block registered exactly one.
C3_RegionSize ==
    /\ \A i \in 1..Len(bus_slaves) :
          /\ bus_slaves[i].name = "ethmac"
          /\ bus_slaves[i].region.size =
                (Get(core_config, "nrxslots", 2) + Get(core_config, "ntxslots", 2)) * buffer_depth
          /\ bus_slaves[i].region.cached = FALSE
          /\ bus_slaves[i].region.origin =
                IF "soc" \in DOMAIN core_config THEN core_config["soc"]["mem_map"]["ethmac"] ELSE None
    /\ ethmac # NoObject => Len(bus_slaves) = 1
    /\ ethmac = NoObject => bus_slaves = <<>>

\* the default region, 4 x buffer_depth, registered with no origin given
C3_Witness ==
    /\ Len(bus_slaves) = 1
    /\ DOMAIN core_config \cap {"nrxslots", "ntxslots", "soc"} = {}
    /\ bus_slaves[1].region = [origin |-> None, size |-> 4 * buffer_depth, cached |-> FALSE]

----------------------------------------------------------------------------
\* C4: a configuration with a top-level csr_map or mem_map key never gets
\* past the validation at the head of PHYCore.__init__: no SoCMini/CRG, no
\* pad request, no PHY, MAC or UDP/IP core, no build; once a core class was
\* chosen the run fails with the deprecation error.
C4_DeprecatedRejectedFirst ==
    HasDeprecatedKey =>
        /\ NothingInstantiated
        /\ ~built
        /\ pc \in {"convert", "platform", "dispatch", "validate", "failed"}
        /\ pc = "failed" /\ soc_class # None
              => error = "RuntimeWarning: Config option is now a sub-option of 'soc'"

\* a UDP configuration with a top-level mem_map has been rejected
C4_Witness ==
    /\ "mem_map" \in DOMAIN core_config
    /\ soc_class = "UDPCore"
    /\ pc = "failed"
    /\ error = "RuntimeWarning: Config option is now a sub-option of 'soc'"

----------------------------------------------------------------------------
(* Configurations of C5, read once the run has ended (the configuration is *)
(* converted by then unless the conversion itself failed).                 *)

Composable ==
    /\ core_config["vendor"] \in {"lattice", "xilinx"}
    /\ ~HasDeprecatedKey
    /\ "clk_freq" \in DOMAIN core_config
    /\ "phy" \in DOMAIN core_config
    /\ core_config["phy"] \in SupportedPhys

MACComposed ==
    /\ pc = "done"
    /\ built
    /\ ethphy.cls = core_config["phy"]
    /\ submodules = <<"crg", "ethphy", "ethmac">>
    /\ ethmac.cls = "LiteEthMAC"
    /\ ethmac.phy = ethphy
    /\ ethmac.dw = 32
    /\ bus_slaves = <<[name   |-> "ethmac",
                       slave  |-> "ethmac.bus",
                       region |-> [origin |-> Get(mem_map, "ethmac", None),
                                   size   |-> (ethmac.nrxslots + ethmac.ntxslots) * buffer_depth,
                                   cached |-> FALSE]]>>
    /\ requested[Len(requested)] = "interrupt"

----------------------------------------------------------------------------
\* C6 as stated: in a UDP composition the mac_address (ip_address) pad is
\* requested if and only if the key is absent from the configuration.
C6_PadIffKeyAbsent ==
    soc_class = "UDPCore" /\ pc \in {"build", "done"} =>
        \A k \in {"mac_address", "ip_address"} :
            k \in Range(requested) <=> k \notin DOMAIN core_config

\* C6 amended: the pad is requested if and only if the key is absent or its
\* value is None; the UDP/IP core gets the pad in that case and the
\* configured literal otherwise; the one UDP port is acquired at the
\* configured port number with second argument 8.
C6_PadIffAbsentOrNone ==
    /\ core # NoObject =>
          \A k \in {"mac_address", "ip_address"} :
              /\ k \in Range(requested) <=> (k \notin DOMAIN core_config \/ core_config[k] = None)
              /\ core[k] = IF k \in Range(requested)
                           THEN [pad |-> k]
                           ELSE [literal |-> core_config[k]]
    /\ core = NoObject => Range(requested) \cap {"mac_address", "ip_address"} = {}
    /\ soc_class = "UDPCore" /\ pc \in {"build", "done"}
          => udp_ports = <<[udp_port |-> core_config["port"], dw |-> 8]>>
    /\ Len(udp_ports) <= 1

\* {core: udp, ip_address: literal}, mac_address absent: the MAC address pad
\* is requested, the literal IP is bound, one port at 6000
C6_Witness ==
    /\ pc = "done"
    /\ core # NoObject
    /\ "mac_address" \notin DOMAIN core_config
    /\ core.mac_address = [pad |-> "mac_address"]
    /\ core.ip_address = [literal |-> "literal"]
    /\ Range(requested) \cap {"mac_address", "ip_address"} = {"mac_address"}
    /\ udp_ports = <<[udp_port |-> 6000, dw |-> 8]>>

----------------------------------------------------------------------------
IsPeriod(c, clk, expr) == c.call = "add_period_constraint" /\ c.clks = <<clk>> /\ c.period = expr
IsFalsePath(c, clks) == c.call = "add_false_path_constraints" /\ c.clks = clks

\* C7 as stated: after a successful composition the constraint set is empty
\* for the simulation stand-in and otherwise has exactly four entries, the
\* two periods and the two false-path pairs (sys, rx) and (sys, tx).
C7_FourEntries ==
    pc = "done" =>
        IF ethphy.cls = LiteEthPHYModel
        THEN constraints = <<>>
        ELSE /\ Len(constraints) = 4
             /\ \E i \in 1..4 : IsPeriod(constraints[i], "eth_rx", "1e9/phy.rx_clk_freq")
             /\ \E i \in 1..4 : IsPeriod(constraints[i], "eth_tx", "1e9/phy.tx_clk_freq")
             /\ \E i \in 1..4 : IsFalsePath(constraints[i], <<"sys", "eth_rx">>)
             /\ \E i \in 1..4 : IsFalsePath(constraints[i], <<"sys", "eth_tx">>)

\* C7 amended: after a successful composition the PHY is never the
\* simulation stand-in and the platform got exactly three constraint
\* requests, in order: the receive period, the transmit period and one
\* false-path request over the three clocks sys, rx and tx together.
C7_ThreeRequests ==
    /\ pc = "done" =>
          /\ ethphy.cls # LiteEthPHYModel
          /\ Len(constraints) = 3
          /\ IsPeriod(constraints[1], "eth_rx", "1e9/phy.rx_clk_freq")
          /\ IsPeriod(constraints[2], "eth_tx", "1e9/phy.tx_clk_freq")
          /\ IsFalsePath(constraints[3], <<"sys", "eth_rx", "eth_tx">>)
    /\ ethphy = NoObject => constraints = <<>>

\* a build has ended with the three requests made for a GMII PHY
C7_Witness ==
    /\ pc = "done"
    /\ ethphy.cls = "gmii.LiteEthPHYGMII"
    /\ Len(constraints) = 3

----------------------------------------------------------------------------
\* C8 as stated: the constraint set is derived only after the MAC or UDP/IP
\* core has been instantiated.
C8_ConstraintsAfterCore ==
    constraints # <<>> => ethmac # NoObject \/ core # NoObject

\* C8 amended: the steps run in the order validation, SoCMini and CRG with
\* the clock/reset pads, PHY, timing constraints, MAC or UDP/IP core with
\* its region, build; the constraints are derived after the PHY and before
\* the MAC or UDP/IP core.
C8_ConstraintsBeforeCore ==
    /\ socmini # NoObject => ~HasDeprecatedKey /\ soc_class # None
    /\ socmini # NoObject <=> (Len(requested) >= 2 /\ SubSeq(requested, 1, 2) = <<"sys_clock", "sys_reset">>)
    /\ socmini = NoObject => requested = <<>> /\ submodules = <<>>
    /\ ethphy # NoObject => socmini # NoObject
    /\ constraints # <<>> => ethphy # NoObject
    /\ ethmac # NoObject \/ core # NoObject => constraints # <<>>
    /\ bus_slaves # <<>> => ethmac # NoObject
    /\ built => ethmac # NoObject \/ core # NoObject
    /\ submodules \in {<<>>, <<"crg">>, <<"crg", "ethphy">>,
                       <<"crg", "ethphy", "ethmac">>, <<"crg", "ethphy", "core">>}

\* the constraints are attached and the MAC is not instantiated yet
C8_Witness ==
    /\ pc = "mac"
    /\ Len(constraints) = 3
    /\ ethmac = NoObject /\ bus_slaves = <<>>

----------------------------------------------------------------------------
\* C9: an explicit PHY class among the six supported ones is instantiated
\* as that class with the clock and pad bundles of its own family and no
\* other PHY bundle; for any other class of liteeth.phy the PHY block raises
\* "Unsupported PHY"; unless a supported PHY was instantiated no PHY bundle
\* is ever requested.
C9_ExplicitPhy ==
    /\ ethphy # NoObject =>
          /\ ethphy.cls = core_config["phy"]
          /\ ethphy.cls \in SupportedPhys
          /\ {ethphy.clock_pads, ethphy.pads} = FamilyBundles(ethphy.cls)
          /\ PhyBundlesRequested = FamilyBundles(ethphy.cls)
          /\ Len(requested) >= 4 /\ requested[3] = ethphy.clock_pads /\ requested[4] = ethphy.pads
    /\ ethphy = NoObject => PhyBundlesRequested = {}
    /\ socmini # NoObject /\ pc \notin {"phy"} /\ "phy" \in DOMAIN core_config =>
          IF core_config["phy"] \in SupportedPhys
          THEN ethphy # NoObject
          ELSE ethphy = NoObject /\ pc = "failed" /\ error = "ValueError: Unsupported PHY"
    /\ error = "ValueError: Unsupported PHY" =>
          core_config["phy"] \in {liteeth_phys[n] : n \in DOMAIN liteeth_phys} \ SupportedPhys

\* the ECP5 RGMII class has been instantiated on the RGMII bundles
C9_Witness ==
    /\ ethphy.cls = "ecp5rgmii.LiteEthPHYRGMII"
    /\ PhyBundlesRequested = {"rgmii_eth_clocks", "rgmii_eth"}
    /\ core_config["phy"] = "ecp5rgmii.LiteEthPHYRGMII"

----------------------------------------------------------------------------
\* the run stopped in a block: nothing a later block produces exists
StoppedBefore(step) ==
    /\ step \in {"platform"} => platform = NoObject
    /\ step \in {"platform", "dispatch"} => soc_class = None
    /\ step \in {"platform", "dispatch", "validate", "socmini"} => socmini = NoObject /\ requested = <<>>
    /\ step \in {"platform", "dispatch", "validate", "socmini", "phy"} => ethphy = NoObject /\ constraints = <<>>
    /\ step \in {"platform", "dispatch", "validate", "socmini", "phy", "mac"} =>
          ethmac = NoObject /\ bus_slaves = <<>> /\ "interrupt" \notin Range(requested)
    /\ step \in {"platform", "dispatch", "validate", "socmini", "phy", "udp"} =>
          udp_ports = <<>> /\ Range(requested) \cap {"udp_sink", "udp_source"} = {}
    /\ step \in {"platform", "dispatch", "validate", "socmini", "phy"} => core = NoObject
    /\ ~built

FailedIn ==
    CASE error = "AttributeError: module 'liteeth.phy' has no attribute" -> "platform"
      [] error = "ValueError: Unsupported vendor" -> "platform"
      [] error = "ValueError: Unknown core" -> "dispatch"
      [] error = "RuntimeWarning: Config option is now a sub-option of 'soc'" -> "validate"
      [] error = "KeyError: clk_freq" -> "socmini"
      [] error = "KeyError: phy" -> "phy"
      [] error = "ValueError: Unsupported PHY" -> "phy"
      [] error = "KeyError: endianness" -> "mac"
      [] error = "KeyError: port" -> "udp"
      [] OTHER -> "unknown"

\* C10: an error ends the run at once (the error is raised exactly in the
\* failed state), nothing that a later block produces exists, builder.build
\* is never reached, and no step follows the failure.
C10_FailureAborts ==
    /\ [](/\ error # "" <=> pc = "failed"
          /\ pc = "failed" => FailedIn # "unknown" /\ StoppedBefore(FailedIn)
          /\ built => error = "")
    /\ [][pc = "failed" => UNCHANGED vars]_vars

\* an unsupported PHY stopped a run after the SoC and CRG were built
C10_Witness ==
    /\ pc = "failed"
    /\ error = "ValueError: Unsupported PHY"
    /\ socmini # NoObject
    /\ ~built

====
